---------------------------- MODULE Spec2Model ----------------------------
(***************************************************************************)
(* A model of the thuai-8 agent: the connect-with-retry loop of           *)
(* AgentClient, the outbound command protocol of Agent (ConnectionAPI and  *)
(* PlayerOperate), the serde wire encoding of PerformMessage and of the    *)
(* enumerations of agent::model, and the inbound handler on_message.       *)
(*                                                                         *)
(* Strings whose spelling matters (enum variant names and their serde      *)
(* rename tokens) are sequences of one-character strings; a JSON value is  *)
(* a record [t, v] with t in {"string", "number", "null"}.                 *)
(***************************************************************************)
EXTENDS Integers, Sequences, FiniteSets, TLC

\* ------------------------------------------------------------------------
\* Bounds of the model and constants of the program
\* ------------------------------------------------------------------------

\* connection.rs:21  const TRY_TIME: u32 = 3
TRY_TIME == 3
\* connection.rs:22  const CONNECT_SLEEP_SEC: u64 = 3
CONNECT_SLEEP_SEC == 3
\* number of API calls the strategy issues in one run
MaxCalls == 2

\* main.rs:19  TOKEN_DEFAULT, and the token of the spec's example
TOKEN_DEFAULT == "1919810"
Tokens == {TOKEN_DEFAULT, "abc"}

\* ------------------------------------------------------------------------
\* agent::model enumerations: variants in declaration order, and the
\* #[serde(rename = "...")] token of each variant
\* ------------------------------------------------------------------------

BlackOut == <<"B", "l", "a", "c", "k", "O", "u", "t">>
SpeedUp == <<"S", "p", "e", "e", "d", "U", "p">>
Flash == <<"F", "l", "a", "s", "h">>
Destroy == <<"D", "e", "s", "t", "r", "o", "y">>
Construct == <<"C", "o", "n", "s", "t", "r", "u", "c", "t">>
Trap == <<"T", "r", "a", "p">>
Missile == <<"M", "i", "s", "s", "i", "l", "e">>
Kamui == <<"K", "a", "m", "u", "i">>
BulletCount == <<"B", "u", "l", "l", "e", "t", "C", "o", "u", "n", "t">>
BulletSpeed == <<"B", "u", "l", "l", "e", "t", "S", "p", "e", "e", "d">>
AttackSpeed == <<"A", "t", "t", "a", "c", "k", "S", "p", "e", "e", "d">>
Laser == <<"L", "a", "s", "e", "r">>
Damage == <<"D", "a", "m", "a", "g", "e">>
AntiArmor == <<"A", "n", "t", "i", "A", "r", "m", "o", "r">>
Armor == <<"A", "r", "m", "o", "r">>
Reflect == <<"R", "e", "f", "l", "e", "c", "t">>
Dodge == <<"D", "o", "d", "g", "e">>
Knife == <<"K", "n", "i", "f", "e">>
Gravity == <<"G", "r", "a", "v", "i", "t", "y">>
Back == <<"B", "a", "c", "k">>
Forth == <<"F", "o", "r", "t", "h">>
Clockwise == <<"C", "l", "o", "c", "k", "w", "i", "s", "e">>
CounterClockwise == <<"C", "o", "u", "n", "t", "e", "r", "C", "l", "o", "c", "k", "w", "i", "s", "e">>
TheSelf == <<"T", "h", "e", "S", "e", "l", "f">>
Opponent == <<"O", "p", "p", "o", "n", "e", "n", "t">>

BuffKind == << BlackOut, SpeedUp, Flash, Destroy, Construct, Trap, Missile, Kamui, BulletCount, BulletSpeed, AttackSpeed, Laser, Damage, AntiArmor, Armor, Reflect, Dodge, Knife, Gravity >>
BuffKind_rename(v) ==
    CASE v = BlackOut -> <<"B", "L", "A", "C", "K", "_", "O", "U", "T">>
      [] v = SpeedUp -> <<"S", "P", "E", "E", "D", "_", "U", "P">>
      [] v = Flash -> <<"F", "L", "A", "S", "H">>
      [] v = Destroy -> <<"D", "E", "S", "T", "R", "O", "Y">>
      [] v = Construct -> <<"C", "O", "N", "S", "T", "R", "U", "C", "T">>
      [] v = Trap -> <<"T", "R", "A", "P">>
      [] v = Missile -> <<"M", "I", "S", "S", "I", "L", "E">>
      [] v = Kamui -> <<"K", "A", "M", "U", "I">>
      [] v = BulletCount -> <<"B", "U", "L", "L", "E", "T", "_", "C", "O", "U", "N", "T">>
      [] v = BulletSpeed -> <<"B", "U", "L", "L", "E", "T", "_", "S", "P", "E", "E", "D">>
      [] v = AttackSpeed -> <<"A", "T", "T", "A", "C", "K", "_", "S", "P", "E", "E", "D">>
      [] v = Laser -> <<"L", "A", "S", "E", "R">>
      [] v = Damage -> <<"D", "A", "M", "A", "G", "E">>
      [] v = AntiArmor -> <<"A", "N", "T", "I", "_", "A", "R", "M", "O", "R">>
      [] v = Armor -> <<"A", "R", "M", "O", "R">>
      [] v = Reflect -> <<"R", "E", "F", "L", "E", "C", "T">>
      [] v = Dodge -> <<"D", "O", "D", "G", "E">>
      [] v = Knife -> <<"K", "N", "I", "F", "E">>
      [] v = Gravity -> <<"G", "R", "A", "V", "I", "T", "Y">>

SkillKind == << BlackOut, SpeedUp, Flash, Destroy, Construct, Trap, Missile, Kamui >>
SkillKind_rename(v) ==
    CASE v = BlackOut -> <<"B", "L", "A", "C", "K", "_", "O", "U", "T">>
      [] v = SpeedUp -> <<"S", "P", "E", "E", "D", "_", "U", "P">>
      [] v = Flash -> <<"F", "L", "A", "S", "H">>
      [] v = Destroy -> <<"D", "E", "S", "T", "R", "O", "Y">>
      [] v = Construct -> <<"C", "O", "N", "S", "T", "R", "U", "C", "T">>
      [] v = Trap -> <<"T", "R", "A", "P">>
      [] v = Missile -> <<"M", "I", "S", "S", "I", "L", "E">>
      [] v = Kamui -> <<"K", "A", "M", "U", "I">>

MoveDirection == << Back, Forth >>
MoveDirection_rename(v) ==
    CASE v = Back -> <<"B", "A", "C", "K">>
      [] v = Forth -> <<"F", "O", "R", "T", "H">>

TurnDirection == << Clockwise, CounterClockwise >>
TurnDirection_rename(v) ==
    CASE v = Clockwise -> <<"C", "L", "O", "C", "K", "W", "I", "S", "E">>
      [] v = CounterClockwise -> <<"C", "O", "U", "N", "T", "E", "R", "_", "C", "L", "O", "C", "K", "W", "I", "S", "E">>

RequestType == << TheSelf, Opponent >>
RequestType_rename(v) ==
    CASE v = TheSelf -> <<"S", "E", "L", "F">>
      [] v = Opponent -> <<"O", "P", "P", "O", "N", "E", "N", "T">>

\* position of a variant in its enum = its discriminant (`as u8`)
Variants(enum) == {enum[i] : i \in DOMAIN enum}

\* ------------------------------------------------------------------------
\* Values
\* ------------------------------------------------------------------------

\* Option<T>
None == [some |-> FALSE, value |-> "none"]
Some(x) == [some |-> TRUE, value |-> x]

\* f64: finite values in tenths, and the non-finite values
Finite(tenths) == [class |-> "finite", tenths |-> tenths]
NaN == [class |-> "nan", tenths |-> 0]
Infinity == [class |-> "inf", tenths |-> 0]
Distances == {Finite(0), Finite(35), NaN, Infinity}
\* u32 angles
Angles == {0, 90}
\* the arguments the strategy passes in a run
CallDistances == {Finite(35), NaN}
CallAngles == {90}
CallSkills == {Flash, Kamui}
CallBuffs == {BlackOut, Knife}

\* JSON values written by serde_json
JString(s) == [t |-> "string", v |-> s]
JNumber(n) == [t |-> "number", v |-> n]
JNull == [t |-> "null", v |-> 0]

\* serde_json::to_string of an f64: a number when finite, null for NaN and
\* the infinities
Serialize_f64(d) == IF d.class = "finite" THEN JNumber(d.tenths) ELSE JNull
\* serde_json::to_string of a u32
Serialize_u32(n) == JNumber(10 * n)

\* derived Serialize of the enumerations: the rename token as a JSON string
\* mutation: BlackOut has lost its rename attribute, serde writes the
\* variant name
Serialize_BuffKind_unrenamed(v) ==
    JString(IF v = BlackOut THEN BlackOut ELSE BuffKind_rename(v))
Serialize_BuffKind(v) == JString(BuffKind_rename(v))
Serialize_SkillKind(v) == JString(SkillKind_rename(v))
Serialize_MoveDirection(v) == JString(MoveDirection_rename(v))
Serialize_TurnDirection(v) == JString(TurnDirection_rename(v))
Serialize_RequestType(v) == JString(RequestType_rename(v))

\* PerformMessage values
PerformMove(token, direction, distance) ==
    [variant |-> "PerformMove", token |-> token, direction |-> direction,
     distance |-> distance]
PerformTurn(token, direction, angle) ==
    [variant |-> "PerformTurn", token |-> token, direction |-> direction,
     angle |-> angle]
PerformAttack(token) == [variant |-> "PerformAttack", token |-> token]
PerformSkill(token, skill_name) ==
    [variant |-> "PerformSkill", token |-> token, skill_name |-> skill_name]
PerformSelect(token, buff_name) ==
    [variant |-> "PerformSelect", token |-> token, buff_name |-> buff_name]
GetPlayerInfo(token, request) ==
    [variant |-> "GetPlayerInfo", token |-> token, request |-> request]
GetEnvironmentInfo(token) == [variant |-> "GetEnvironmentInfo", token |-> token]
GetGameStatistics(token) == [variant |-> "GetGameStatistics", token |-> token]
GetAvailableBuffs(token) == [variant |-> "GetAvailableBuffs", token |-> token]

\* #[serde(tag = "messageType")] with the per-variant and per-field renames:
\* the tag first, then the variant's own fields, nothing else
Serialize_PerformMessage(msg) ==
    CASE msg.variant = "PerformMove" ->
           [messageType |-> JString("PERFORM_MOVE"),
            token |-> JString(msg.token),
            direction |-> Serialize_MoveDirection(msg.direction),
            distance |-> Serialize_f64(msg.distance)]
      [] msg.variant = "PerformTurn" ->
           [messageType |-> JString("PERFORM_TURN"),
            token |-> JString(msg.token),
            direction |-> Serialize_TurnDirection(msg.direction),
            angle |-> Serialize_u32(msg.angle)]
      [] msg.variant = "PerformAttack" ->
           [messageType |-> JString("PERFORM_ATTACK"),
            token |-> JString(msg.token)]
      [] msg.variant = "PerformSkill" ->
           [messageType |-> JString("PERFORM_SKILL"),
            token |-> JString(msg.token),
            skillName |-> Serialize_SkillKind(msg.skill_name)]
      [] msg.variant = "PerformSelect" ->
           [messageType |-> JString("PERFORM_SELECT"),
            token |-> JString(msg.token),
            buffName |-> Serialize_BuffKind(msg.buff_name)]
      [] msg.variant = "GetPlayerInfo" ->
           [messageType |-> JString("GET_PLAYER_INFO"),
            token |-> JString(msg.token),
            request |-> Serialize_RequestType(msg.request)]
      [] msg.variant = "GetEnvironmentInfo" ->
           [messageType |-> JString("GET_ENVIRONMENT_INFO"),
            token |-> JString(msg.token)]
      [] msg.variant = "GetGameStatistics" ->
           [messageType |-> JString("GET_GAME_STATISTICS"),
            token |-> JString(msg.token)]
      [] msg.variant = "GetAvailableBuffs" ->
           [messageType |-> JString("GET_AVAILABLE_BUFFS"),
            token |-> JString(msg.token)]

\* derived Deserialize of an enumeration: the variant whose rename token is
\* the given JSON string, or an error
Deserialize_enum(renames, j) ==
    IF j.t = "string" /\ \E v \in DOMAIN renames : renames[v] = j.v
    THEN Some(CHOOSE v \in DOMAIN renames : renames[v] = j.v)
    ELSE None
Deserialize_BuffKind(j) ==
    Deserialize_enum([v \in Variants(BuffKind) |-> BuffKind_rename(v)], j)
Deserialize_SkillKind(j) ==
    Deserialize_enum([v \in Variants(SkillKind) |-> SkillKind_rename(v)], j)
Deserialize_MoveDirection(j) ==
    Deserialize_enum([v \in Variants(MoveDirection) |-> MoveDirection_rename(v)], j)
Deserialize_TurnDirection(j) ==
    Deserialize_enum([v \in Variants(TurnDirection) |-> TurnDirection_rename(v)], j)
Deserialize_RequestType(j) ==
    Deserialize_enum([v \in Variants(RequestType) |-> RequestType_rename(v)], j)
\* serde_json reading an f64 or a u32: a JSON number, never null
Deserialize_f64(j) == IF j.t = "number" THEN Some(Finite(j.v)) ELSE None
Deserialize_u32(j) ==
    IF j.t = "number" /\ j.v % 10 = 0 /\ j.v >= 0 THEN Some(j.v \div 10) ELSE None

\* reading a frame back into a PerformMessage (the enum derives Serialize
\* only): the tag selects the variant, the variant's fields are required
Deserialize_PerformMessage(f) ==
    LET has(names) == DOMAIN f = names \cup {"messageType", "token"}
        tag == f.messageType.v
    IN  IF ~({"messageType", "token"} \subseteq DOMAIN f) THEN None
        ELSE IF f.messageType.t # "string" \/ f.token.t # "string" THEN None
        ELSE CASE tag = "PERFORM_MOVE" /\ has({"direction", "distance"}) ->
                    LET d == Deserialize_MoveDirection(f.direction)
                        x == Deserialize_f64(f.distance)
                    IN  IF d.some /\ x.some
                        THEN Some(PerformMove(f.token.v, d.value, x.value))
                        ELSE None
               [] tag = "PERFORM_TURN" /\ has({"direction", "angle"}) ->
                    LET d == Deserialize_TurnDirection(f.direction)
                        a == Deserialize_u32(f.angle)
                    IN  IF d.some /\ a.some
                        THEN Some(PerformTurn(f.token.v, d.value, a.value))
                        ELSE None
               [] tag = "PERFORM_ATTACK" /\ has({}) ->
                    Some(PerformAttack(f.token.v))
               [] tag = "PERFORM_SKILL" /\ has({"skillName"}) ->
                    LET s == Deserialize_SkillKind(f.skillName)
                    IN  IF s.some THEN Some(PerformSkill(f.token.v, s.value))
                        ELSE None
               [] tag = "PERFORM_SELECT" /\ has({"buffName"}) ->
                    LET b == Deserialize_BuffKind(f.buffName)
                    IN  IF b.some THEN Some(PerformSelect(f.token.v, b.value))
                        ELSE None
               [] tag = "GET_PLAYER_INFO" /\ has({"request"}) ->
                    LET r == Deserialize_RequestType(f.request)
                    IN  IF r.some THEN Some(GetPlayerInfo(f.token.v, r.value))
                        ELSE None
               [] tag = "GET_ENVIRONMENT_INFO" /\ has({}) ->
                    Some(GetEnvironmentInfo(f.token.v))
               [] tag = "GET_GAME_STATISTICS" /\ has({}) ->
                    Some(GetGameStatistics(f.token.v))
               [] tag = "GET_AVAILABLE_BUFFS" /\ has({}) ->
                    Some(GetAvailableBuffs(f.token.v))
               [] OTHER -> None

\* ------------------------------------------------------------------------
\* State
\* ------------------------------------------------------------------------

VARIABLES
    pc,                \* where the agent is: "connect_async", "sleep",
                       \* "connected", or one of the two panics
    try_count,         \* try_connect's remaining attempts
    handshakes,        \* history: outcome of every connect_async, in order
    sleeps,            \* history: number of sleep(CONNECT_SLEEP_SEC) calls
    slept,             \* history: seconds slept by each sleep
    token,             \* Agent.token
    players_info,      \* Agent.players_info
    game_statistics,   \* Agent.game_statistics
    environment_info,  \* Agent.environment_info
    available_buffs,   \* Agent.available_buffs
    out,               \* history: every message given to AgentClient::send,
                       \* with its frame and whether the transport took it
    last,              \* history: the last API call and how it returned
    calls,             \* number of API calls issued
    received,          \* history: the last text given to on_message
    value,             \* codec: the PerformMessage being encoded
    frame,             \* codec: its serialisation
    decoded,           \* codec: what the frame deserialises to
    inbox,             \* run_agent: frames the server delivered to the read
                       \* half, not yet read
    peer_closed,       \* run_agent: the server closed the connection
    eq_args,           \* equality: the two operands of an `==`
    eq_result          \* equality: what the `==` returned

vars == <<pc, try_count, handshakes, sleeps, slept, token, players_info,
          game_statistics, environment_info, available_buffs, out, last,
          calls, received, value, frame, decoded, inbox, peer_closed,
          eq_args, eq_result>>

conn_vars == <<try_count, handshakes, sleeps, slept>>
codec_vars == <<value, frame, decoded>>
run_vars == <<inbox, peer_closed>>
eq_vars == <<eq_args, eq_result>>
state_vars == <<token, players_info, game_statistics, environment_info,
                available_buffs>>

NoArg == [kind |-> "none"]
NoCall ==
    [op |-> "none", arg |-> NoArg, ret |-> "none", logged |-> FALSE, sends |-> 0]

\* the read-only accessors of PlayerOperate: `&self.token` and
\* `self.<field>.as_ref()`
PlayerOperate_token == token
PlayerOperate_players_info == players_info
PlayerOperate_game_statistics == game_statistics
PlayerOperate_environment_info == environment_info
PlayerOperate_available_buffs == available_buffs

\* AgentClient::new calls try_connect(&server, TRY_TIME); the first test of
\* `while try_count > 0` is made before the first await.  The code has no
\* constructor of Agent: its four Option fields start unset, its token is
\* the one the process was started with.
Init ==
    /\ pc = IF TRY_TIME > 0 THEN "connect_async" ELSE "panic_connection_error"
    /\ try_count = TRY_TIME
    /\ handshakes = <<>>
    /\ sleeps = 0
    /\ slept = <<>>
    /\ token \in Tokens
    /\ players_info = None
    /\ game_statistics = None
    /\ environment_info = None
    /\ available_buffs = None
    /\ out = <<>>
    /\ last = NoCall
    /\ calls = 0
    /\ received = None
    /\ value = None
    /\ frame = None
    /\ decoded = None
    /\ inbox = <<>>
    /\ peer_closed = FALSE
    /\ eq_args = None
    /\ eq_result = None

\* ------------------------------------------------------------------------
\* AgentClient::try_connect and AgentClient::new
\* ------------------------------------------------------------------------

\* mutation: the Ok arm does not return, the loop goes on to the sleep
try_connect_handshake_no_return(ok) ==
    /\ pc = "connect_async"
    /\ handshakes' = Append(handshakes, ok)
    /\ pc' = "sleep"
    /\ UNCHANGED <<try_count, sleeps, slept, state_vars, out, last, calls,
                   received, codec_vars, run_vars, eq_vars>>

\* connect_async(server).await inside the loop: Ok returns Some(ws_stream),
\* new() splits it and builds the AgentClient; Err falls through to the sleep
try_connect_handshake(ok) ==
    /\ pc = "connect_async"
    /\ handshakes' = Append(handshakes, ok)
    /\ pc' = IF ok THEN "connected" ELSE "sleep"
    /\ UNCHANGED <<try_count, sleeps, slept, state_vars, out, last, calls,
                   received, codec_vars, run_vars, eq_vars>>

\* mutation: the loop test is `try_count >= 0`
try_connect_sleep_off_by_one ==
    /\ pc = "sleep"
    /\ sleeps' = sleeps + 1
    /\ slept' = Append(slept, CONNECT_SLEEP_SEC)
    /\ try_count' = try_count - 1
    /\ pc' = IF try_count - 1 >= 0 THEN "connect_async"
                                    ELSE "panic_connection_error"
    /\ UNCHANGED <<handshakes, state_vars, out, last, calls, received,
                   codec_vars, run_vars, eq_vars>>

\* sleep(CONNECT_SLEEP_SEC).await; try_count -= 1; the loop test; when the
\* loop ends try_connect returns None and new() panics
try_connect_sleep ==
    /\ pc = "sleep"
    /\ sleeps' = sleeps + 1
    /\ slept' = Append(slept, CONNECT_SLEEP_SEC)
    /\ try_count' = try_count - 1
    /\ pc' = IF try_count - 1 > 0 THEN "connect_async"
                                   ELSE "panic_connection_error"
    /\ UNCHANGED <<handshakes, state_vars, out, last, calls, received,
                   codec_vars, run_vars, eq_vars>>

\* ------------------------------------------------------------------------
\* AgentClient::send and the ConnectionAPI of Agent
\* ------------------------------------------------------------------------

\* AgentClient::send on the history o: serialise, hand the text to the write
\* half; ok is whether the transport accepted it
send(o, msg, ok) ==
    [out |-> Append(o, [msg |-> msg, frame |-> Serialize_PerformMessage(msg),
                        ok |-> ok]),
     ok |-> ok]

send_get_available_buffs(ok) == send(out, GetAvailableBuffs(token), ok)
send_get_environment_info(ok) == send(out, GetEnvironmentInfo(token), ok)
send_get_game_statistics(ok) == send(out, GetGameStatistics(token), ok)
\* mutation: the first Result is dropped, the second send is always made
send_get_player_info_no_question_mark(ok, ok2) ==
    LET msg == GetPlayerInfo(token, Opponent)
        msg2 == GetPlayerInfo(token, TheSelf)
        first == send(out, msg, ok)
    IN  send(first.out, msg2, ok2)
\* two sends, each followed by `?`
send_get_player_info(ok, ok2) ==
    LET msg == GetPlayerInfo(token, Opponent)
        msg2 == GetPlayerInfo(token, TheSelf)
        first == send(out, msg, ok)
    IN  IF first.ok THEN send(first.out, msg2, ok2) ELSE first
\* mutation: the message is stamped with the built-in default token
send_perform_attack_default_token(ok) ==
    send(out, PerformAttack(TOKEN_DEFAULT), ok)
send_perform_attack(ok) == send(out, PerformAttack(token), ok)
send_perform_move(direction, distance, ok) ==
    send(out, PerformMove(token, direction, distance), ok)
send_perform_select(buff_name, ok) ==
    send(out, PerformSelect(token, buff_name), ok)
send_perform_skill(skill_name, ok) ==
    send(out, PerformSkill(token, skill_name), ok)
send_perform_turn(direction, angle, ok) ==
    send(out, PerformTurn(token, direction, angle), ok)

\* mutation: the call returns only once a frame has come in
Returned_after_reply(op, r) ==
    /\ pc = "connected"
    /\ calls < MaxCalls
    /\ received.some
    /\ calls' = calls + 1
    /\ out' = r.out
    /\ last' = [op |-> op, arg |-> NoArg, ret |-> IF r.ok THEN "Ok" ELSE "Err",
                logged |-> FALSE, sends |-> Len(r.out) - Len(out)]
    /\ UNCHANGED <<pc, conn_vars, state_vars, received, codec_vars, run_vars, eq_vars>>

\* a direct call of a ConnectionAPI method (the four requests have no
\* PlayerOperate wrapper): the Result goes to the caller
Returned(op, r) ==
    /\ pc = "connected"
    /\ calls < MaxCalls
    /\ calls' = calls + 1
    /\ out' = r.out
    /\ last' = [op |-> op, arg |-> NoArg, ret |-> IF r.ok THEN "Ok" ELSE "Err",
                logged |-> FALSE, sends |-> Len(r.out) - Len(out)]
    /\ UNCHANGED <<pc, conn_vars, state_vars, received, codec_vars, run_vars, eq_vars>>

call_send_get_available_buffs ==
    \E ok \in BOOLEAN :
        Returned("send_get_available_buffs", send_get_available_buffs(ok))
call_send_get_environment_info ==
    \E ok \in BOOLEAN :
        Returned("send_get_environment_info", send_get_environment_info(ok))
call_send_get_game_statistics ==
    \E ok \in BOOLEAN :
        Returned("send_get_game_statistics", send_get_game_statistics(ok))
call_send_get_player_info ==
    \E ok \in BOOLEAN, ok2 \in BOOLEAN :
        Returned("send_get_player_info", send_get_player_info(ok, ok2))

\* ------------------------------------------------------------------------
\* PlayerOperate for Agent
\* ------------------------------------------------------------------------

\* the argument a strategy-facing method was called with
Arg(x) == [kind |-> "arg", x |-> x]

\* mutation: the wrapper also writes the snapshot
Swallowed_writes_snapshot(op, arg, r) ==
    /\ pc = "connected"
    /\ calls < MaxCalls
    /\ calls' = calls + 1
    /\ out' = r.out
    /\ last' = [op |-> op, arg |-> arg, ret |-> "unit", logged |-> ~r.ok,
                sends |-> Len(r.out) - Len(out)]
    /\ available_buffs' = Some("a")
    /\ UNCHANGED <<pc, conn_vars, token, players_info, game_statistics,
                   environment_info, received, codec_vars, run_vars, eq_vars>>

\* mutation: `.await.unwrap()`, an Err panics
Swallowed_unwrap(op, arg, r) ==
    /\ pc = "connected"
    /\ calls < MaxCalls
    /\ calls' = calls + 1
    /\ out' = r.out
    /\ last' = [op |-> op, arg |-> arg,
                ret |-> IF r.ok THEN "unit" ELSE "panic",
                logged |-> FALSE, sends |-> Len(r.out) - Len(out)]
    /\ pc' = IF r.ok THEN pc ELSE "panic_unwrap"
    /\ UNCHANGED <<conn_vars, state_vars, received, codec_vars, run_vars, eq_vars>>

\* `.await.unwrap_or_else(|err| error!(...))`: an Err is logged and dropped,
\* the method returns ()
Swallowed(op, arg, r) ==
    /\ pc = "connected"
    /\ calls < MaxCalls
    /\ calls' = calls + 1
    /\ out' = r.out
    /\ last' = [op |-> op, arg |-> arg, ret |-> "unit", logged |-> ~r.ok,
                sends |-> Len(r.out) - Len(out)]
    /\ UNCHANGED <<pc, conn_vars, state_vars, received, codec_vars, run_vars, eq_vars>>

move_forward ==
    \E distance \in CallDistances, ok \in BOOLEAN :
        Swallowed("move_forward", Arg(distance),
                  send_perform_move(Forth, distance, ok))
move_backward ==
    \E distance \in CallDistances, ok \in BOOLEAN :
        Swallowed("move_backward", Arg(distance),
                  send_perform_move(Back, distance, ok))
turn_clockwise ==
    \E angle \in CallAngles, ok \in BOOLEAN :
        Swallowed("turn_clockwise", Arg(angle),
                  send_perform_turn(Clockwise, angle, ok))
turn_counter_clockwise ==
    \E angle \in CallAngles, ok \in BOOLEAN :
        Swallowed("turn_counter_clockwise", Arg(angle),
                  send_perform_turn(CounterClockwise, angle, ok))
attack ==
    \E ok \in BOOLEAN : Swallowed("attack", NoArg, send_perform_attack(ok))
use_skill ==
    \E skill \in CallSkills, ok \in BOOLEAN :
        Swallowed("use_skill", Arg(skill), send_perform_skill(skill, ok))
select_buff ==
    \E buff \in CallBuffs, ok \in BOOLEAN :
        Swallowed("select_buff", Arg(buff), send_perform_select(buff, ok))

\* ------------------------------------------------------------------------
\* AgentClient::on_message
\* ------------------------------------------------------------------------

\* texts a server can deliver (on_message takes any String): a response of
\* each of the four kinds, named after its request, and one frame whose
\* discriminant is unknown
InboundFrames ==
    {[messageType |-> "GET_PLAYER_INFO", value |-> v] : v \in {"a", "b"}}
    \cup {[messageType |-> m, value |-> "a"] :
            m \in {"GET_GAME_STATISTICS", "GET_ENVIRONMENT_INFO", "GET_AVAILABLE_BUFFS",
                   "NO_SUCH_TYPE"}}

\* mutation: the handler stores the value of any frame as the players
on_message_stores_players(msg) ==
    /\ pc = "connected"
    /\ received' = Some(msg)
    /\ players_info' = Some(msg.value)
    /\ UNCHANGED <<pc, conn_vars, token, game_statistics, environment_info,
                   available_buffs, out, last, calls, codec_vars, run_vars,
                   eq_vars>>

\* debug!(...); unimplemented!(): the handler panics on every message and
\* writes nothing.  Nothing in the code calls it (run_agent connects and
\* sleeps); the action is the handler run on a text the server delivered.
on_message(msg) ==
    /\ pc = "connected"
    /\ received' = Some(msg)
    /\ pc' = "panic_unimplemented"
    /\ UNCHANGED <<conn_vars, state_vars, out, last, calls, codec_vars, run_vars, eq_vars>>

\* ------------------------------------------------------------------------
\* Specification
\* ------------------------------------------------------------------------

Next ==
    \/ \E ok \in BOOLEAN : try_connect_handshake(ok)
    \/ try_connect_sleep
    \/ call_send_get_available_buffs
    \/ call_send_get_environment_info
    \/ call_send_get_game_statistics
    \/ call_send_get_player_info
    \/ move_forward
    \/ move_backward
    \/ turn_clockwise
    \/ turn_counter_clockwise
    \/ attack
    \/ use_skill
    \/ select_buff
    \/ \E msg \in InboundFrames : on_message(msg)

Spec == Init /\ [][Next]_vars

\* ------------------------------------------------------------------------
\* The wire codec on its own: every PerformMessage value is serialised, and
\* the frame is read back
\* ------------------------------------------------------------------------

PerformMessagesOf(t) ==
    {PerformMove(t, d, x) : d \in Variants(MoveDirection), x \in Distances}
    \cup {PerformTurn(t, d, a) : d \in Variants(TurnDirection), a \in Angles}
    \cup {PerformAttack(t)}
    \cup {PerformSkill(t, s) : s \in Variants(SkillKind)}
    \cup {PerformSelect(t, b) : b \in Variants(BuffKind)}
    \cup {GetPlayerInfo(t, r) : r \in Variants(RequestType)}
    \cup {GetEnvironmentInfo(t), GetGameStatistics(t), GetAvailableBuffs(t)}

InitCodec ==
    /\ pc = "codec"
    /\ try_count = TRY_TIME
    /\ handshakes = <<>>
    /\ sleeps = 0
    /\ slept = <<>>
    /\ token \in Tokens
    /\ players_info = None
    /\ game_statistics = None
    /\ environment_info = None
    /\ available_buffs = None
    /\ out = <<>>
    /\ last = NoCall
    /\ calls = 0
    /\ received = None
    /\ value \in {Some(m) : m \in PerformMessagesOf(token)}
    /\ frame = None
    /\ decoded = None
    /\ inbox = <<>>
    /\ peer_closed = FALSE
    /\ eq_args = None
    /\ eq_result = None

\* serde_json::to_string(&msg) in AgentClient::send
codec_serialize ==
    /\ pc = "codec"
    /\ ~frame.some
    /\ frame' = Some(Serialize_PerformMessage(value.value))
    /\ UNCHANGED <<pc, conn_vars, state_vars, out, last, calls, received,
                   value, decoded, run_vars, eq_vars>>

\* the frame read back
codec_deserialize ==
    /\ pc = "codec"
    /\ frame.some
    /\ ~decoded.some
    /\ decoded' = Some(Deserialize_PerformMessage(frame.value))
    /\ UNCHANGED <<pc, conn_vars, state_vars, out, last, calls, received,
                   value, frame, run_vars, eq_vars>>

NextCodec ==
    \/ codec_serialize
    \/ codec_deserialize

SpecCodec == InitCodec /\ [][NextCodec]_vars

\* ------------------------------------------------------------------------
\* run_agent: the program as main starts it
\* ------------------------------------------------------------------------

\* frames the server may have pushed and the agent has not read
MaxInbox == 2

\* the server writes a text frame to the socket; it waits in the read half
\* of the AgentClient
server_push(msg) ==
    /\ pc = "connected"
    /\ ~peer_closed
    /\ Len(inbox) < MaxInbox
    /\ inbox' = Append(inbox, msg)
    /\ UNCHANGED <<pc, conn_vars, state_vars, out, last, calls, received,
                   codec_vars, peer_closed, eq_vars>>

\* the server closes the connection
server_close ==
    /\ pc = "connected"
    /\ ~peer_closed
    /\ peer_closed' = TRUE
    /\ UNCHANGED <<pc, conn_vars, state_vars, out, last, calls, received,
                   codec_vars, inbox, eq_vars>>

\* after AgentClient::new: sleep(Duration::from_secs(10)).await, then the
\* function ends and the AgentClient is dropped; the read half is never
\* polled
run_agent_return ==
    /\ pc = "connected"
    /\ pc' = "exited"
    /\ UNCHANGED <<conn_vars, state_vars, out, last, calls, received,
                   codec_vars, run_vars, eq_vars>>

NextRun ==
    \/ \E ok \in BOOLEAN : try_connect_handshake(ok)
    \/ try_connect_sleep
    \/ \E msg \in InboundFrames : server_push(msg)
    \/ server_close
    \/ run_agent_return

SpecRun == Init /\ [][NextRun]_vars

\* ------------------------------------------------------------------------
\* The equalities of model.rs
\* ------------------------------------------------------------------------

\* `v as u8` of a fieldless enum without explicit discriminants: the
\* position of the variant in the declaration, from 0
as_u8(enum, v) == (CHOOSE i \in DOMAIN enum : enum[i] = v) - 1
\* mutation: the discriminants of SkillKind start at 1
SkillKind_as_u8_from_one(v) == as_u8(SkillKind, v) + 1
SkillKind_as_u8(v) == as_u8(SkillKind, v)
BuffKind_as_u8(v) == as_u8(BuffKind, v)

\* impl PartialEq<SkillKind> for BuffKind
BuffKind_eq_SkillKind(self, other) == SkillKind_as_u8(other) = BuffKind_as_u8(self)

\* coordinates of Position<f64> are held in units of 1e-7, so EPSILON (1e-6)
\* is 10 units
EPSILON == 10
abs(x) == IF x < 0 THEN -x ELSE x

Position(x, y, angle) == [x |-> x, y |-> y, angle |-> angle]

\* impl PartialEq for Position<i32>
Position_i32_eq(self, other) == self.x = other.x /\ self.y = other.y

\* mutation: the bound is not strict
Position_f64_eq_le(self, other) ==
    abs(self.x - other.x) <= EPSILON /\ abs(self.y - other.y) <= EPSILON
\* impl PartialEq for Position<f64>
Position_f64_eq(self, other) ==
    abs(self.x - other.x) < EPSILON /\ abs(self.y - other.y) < EPSILON

CoordsI32 == {0, 1}
CoordsF64 == {0, 9, 10, 11}
PositionAngles == {0, 1}
PositionsI32 ==
    {Position(x, y, a) : x \in CoordsI32, y \in CoordsI32, a \in PositionAngles}
PositionsF64 ==
    {Position(x, y, a) : x \in CoordsF64, y \in CoordsF64, a \in PositionAngles}

EqInputs ==
    {[kind |-> "BuffKind_SkillKind", self |-> b, other |-> s] :
        b \in Variants(BuffKind), s \in Variants(SkillKind)}
    \cup {[kind |-> "Position_i32", self |-> p, other |-> q] :
            p \in PositionsI32, q \in PositionsI32}
    \cup {[kind |-> "Position_f64", self |-> p, other |-> q] :
            p \in PositionsF64, q \in PositionsF64}

InitEq ==
    /\ pc = "eq"
    /\ try_count = TRY_TIME
    /\ handshakes = <<>>
    /\ sleeps = 0
    /\ slept = <<>>
    /\ token = TOKEN_DEFAULT
    /\ players_info = None
    /\ game_statistics = None
    /\ environment_info = None
    /\ available_buffs = None
    /\ out = <<>>
    /\ last = NoCall
    /\ calls = 0
    /\ received = None
    /\ value = None
    /\ frame = None
    /\ decoded = None
    /\ inbox = <<>>
    /\ peer_closed = FALSE
    /\ eq_args \in {Some(a) : a \in EqInputs}
    /\ eq_result = None

\* `self == other` evaluated once
compare(kind, result) ==
    /\ pc = "eq"
    /\ eq_args.value.kind = kind
    /\ ~eq_result.some
    /\ eq_result' = Some(result)
    /\ UNCHANGED <<pc, conn_vars, state_vars, out, last, calls, received,
                   codec_vars, run_vars, eq_args>>

compare_BuffKind_SkillKind ==
    compare("BuffKind_SkillKind",
            BuffKind_eq_SkillKind(eq_args.value.self, eq_args.value.other))
compare_Position_i32 ==
    compare("Position_i32",
            Position_i32_eq(eq_args.value.self, eq_args.value.other))
compare_Position_f64 ==
    compare("Position_f64",
            Position_f64_eq(eq_args.value.self, eq_args.value.other))

NextEq ==
    \/ compare_BuffKind_SkillKind
    \/ compare_Position_i32
    \/ compare_Position_f64

SpecEq == InitEq /\ [][NextEq]_vars

\* ------------------------------------------------------------------------
\* Properties of the connection manager
\* ------------------------------------------------------------------------

AllFailed == \A i \in DOMAIN handshakes : ~handshakes[i]
\* new() has returned an AgentClient
Established == pc \in {"connected", "panic_unimplemented"}
\* try_connect has returned
ConnectDone == pc \notin {"connect_async", "sleep"}

\* C1: against a server whose every handshake fails, connect makes exactly
\* TRY_TIME attempts, never more and never fewer, and then panics
\* ("Connection Error!"); it never returns a session.
C1_ExactlyRetryLimitThenPanic ==
    /\ Len(handshakes) <= TRY_TIME
    /\ pc = "panic_connection_error" =>
          AllFailed /\ Len(handshakes) = TRY_TIME
    /\ AllFailed =>
          /\ ~Established
          /\ Len(handshakes) < TRY_TIME => pc \in {"connect_async", "sleep"}
          /\ Len(handshakes) = TRY_TIME =>
                pc \in {"sleep", "panic_connection_error"}

C1_Witness ==
    pc = "panic_connection_error" /\ Len(handshakes) = TRY_TIME /\ AllFailed

\* C2: when the first k handshakes fail (k < TRY_TIME) and the next one
\* succeeds, the session is returned on attempt k + 1 after exactly k
\* sleeps, and no attempt or sleep follows the first success.
C2_SessionOnFirstSuccess ==
    /\ Established =>
          /\ Len(handshakes) \in 1..TRY_TIME
          /\ handshakes[Len(handshakes)]
          /\ \A i \in 1..(Len(handshakes) - 1) : ~handshakes[i]
          /\ sleeps = Len(handshakes) - 1
          /\ Len(slept) = sleeps
    /\ \A i \in DOMAIN handshakes :
          handshakes[i] => Established /\ i = Len(handshakes) /\ sleeps = i - 1

C2_Witness ==
    /\ Established
    /\ handshakes = <<FALSE, FALSE, TRUE>>
    /\ sleeps = 2

\* C3: the sleep is always CONNECT_SLEEP_SEC and happens only between two
\* attempts: once try_connect has returned, n attempts were separated by
\* n - 1 sleeps, also when every attempt failed.
C3_SleepOnlyBetweenAttempts ==
    /\ \A i \in DOMAIN slept : slept[i] = CONNECT_SLEEP_SEC
    /\ ConnectDone => sleeps = Len(handshakes) - 1

\* ------------------------------------------------------------------------
\* Properties of the protocol client
\* ------------------------------------------------------------------------

PlayerOperateOps ==
    {"move_forward", "move_backward", "turn_clockwise",
     "turn_counter_clockwise", "attack", "use_skill", "select_buff"}

\* C4: a strategy-facing operation returns () whether or not the transport
\* took the frame; a failure is logged, is not propagated, does not end the
\* agent, is not retried (one send per call), and the next operation can
\* still be issued.
C4_SendFailureSwallowed ==
    last.op \in PlayerOperateOps =>
        /\ last.ret = "unit"
        /\ last.sends = 1
        /\ last.logged = ~out[Len(out)].ok
        /\ received = None => pc = "connected"
        /\ (pc = "connected" /\ calls < MaxCalls) =>
              /\ ENABLED move_forward
              /\ ENABLED move_backward
              /\ ENABLED turn_clockwise
              /\ ENABLED turn_counter_clockwise
              /\ ENABLED attack
              /\ ENABLED use_skill
              /\ ENABLED select_buff

\* a failed move_forward was followed by a select_buff the transport took
C4_Witness ==
    /\ calls = 2
    /\ Len(out) = 2
    /\ out[1].msg.variant = "PerformMove" /\ ~out[1].ok
    /\ last.op = "select_buff" /\ out[2].ok /\ ~last.logged
    /\ pc = "connected"

\* C5: every frame handed to the transport, by any of the nine outbound
\* operations and in any sequence of them, has a token field equal to
\* Agent.token.
C5_EveryFrameCarriesToken ==
    \A i \in DOMAIN out :
        /\ "token" \in DOMAIN out[i].frame
        /\ out[i].frame.token = JString(token)

\* both GET_PLAYER_INFO frames and an attack frame went out under the
\* token "abc"
C5_Witness ==
    /\ token = "abc"
    /\ \E i, j \in DOMAIN out :
          /\ out[i].ok /\ out[i].msg.variant = "GetPlayerInfo"
          /\ out[j].ok /\ out[j].msg.variant = "PerformAttack"

\* ------------------------------------------------------------------------
\* Properties of the wire codec
\* ------------------------------------------------------------------------

\* the schema table: discriminant and kind-specific fields of each kind
Discriminant(variant) ==
    CASE variant = "PerformMove" -> "PERFORM_MOVE"
      [] variant = "PerformTurn" -> "PERFORM_TURN"
      [] variant = "PerformAttack" -> "PERFORM_ATTACK"
      [] variant = "PerformSkill" -> "PERFORM_SKILL"
      [] variant = "PerformSelect" -> "PERFORM_SELECT"
      [] variant = "GetPlayerInfo" -> "GET_PLAYER_INFO"
      [] variant = "GetEnvironmentInfo" -> "GET_ENVIRONMENT_INFO"
      [] variant = "GetGameStatistics" -> "GET_GAME_STATISTICS"
      [] variant = "GetAvailableBuffs" -> "GET_AVAILABLE_BUFFS"
SchemaFields(variant) ==
    CASE variant = "PerformMove" -> {"direction", "distance"}
      [] variant = "PerformTurn" -> {"direction", "angle"}
      [] variant = "PerformSkill" -> {"skillName"}
      [] variant = "PerformSelect" -> {"buffName"}
      [] variant = "GetPlayerInfo" -> {"request"}
      [] OTHER -> {}

\* C6: the frame of every command has exactly the fields messageType, token
\* and those of its kind, messageType is the kind's discriminant, and no
\* field is null; move Forth 3.5 under token "abc" encodes to
\* {messageType: PERFORM_MOVE, token: abc, direction: FORTH, distance: 3.5}.
C6_FrameMatchesSchema ==
    frame.some =>
        LET f == frame.value
            m == value.value
        IN  /\ DOMAIN f = {"messageType", "token"} \cup SchemaFields(m.variant)
            /\ f.messageType = JString(Discriminant(m.variant))
            /\ \A k \in DOMAIN f : f[k].t # "null"
            /\ m = PerformMove("abc", Forth, Finite(35)) =>
                  f = [messageType |-> JString("PERFORM_MOVE"),
                       token |-> JString("abc"),
                       direction |-> JString(<<"F", "O", "R", "T", "H">>),
                       distance |-> JNumber(35)]

\* upper snake case of a variant name: "_" before every inner capital, all
\* letters in upper case
LowerCase == <<"a", "b", "c", "d", "e", "f", "g", "h", "i", "j", "k", "l", "m",
               "n", "o", "p", "q", "r", "s", "t", "u", "v", "w", "x", "y", "z">>
UpperCase == <<"A", "B", "C", "D", "E", "F", "G", "H", "I", "J", "K", "L", "M",
               "N", "O", "P", "Q", "R", "S", "T", "U", "V", "W", "X", "Y", "Z">>
IsUpper(c) == \E i \in DOMAIN UpperCase : UpperCase[i] = c
ToUpper(c) ==
    IF IsUpper(c) THEN c
    ELSE UpperCase[CHOOSE i \in DOMAIN LowerCase : LowerCase[i] = c]
RECURSIVE UpperSnakeFrom(_, _)
UpperSnakeFrom(name, i) ==
    IF i > Len(name) THEN <<>>
    ELSE (IF i > 1 /\ IsUpper(name[i]) THEN <<"_">> ELSE <<>>)
         \o <<ToUpper(name[i])>> \o UpperSnakeFrom(name, i + 1)
UpperSnake(name) == UpperSnakeFrom(name, 1)
\* upper-case words joined by single underscores
IsUpperSnake(tok) ==
    /\ Len(tok) > 0
    /\ \A i \in DOMAIN tok : IsUpper(tok[i]) \/ tok[i] = "_"
    /\ tok[1] # "_" /\ tok[Len(tok)] # "_"
    /\ \A i \in 1..(Len(tok) - 1) : ~(tok[i] = "_" /\ tok[i + 1] = "_")
Injective(tokens) ==
    \A v, w \in DOMAIN tokens : tokens[v] = tokens[w] => v = w

\* C7: every enum value is written as its fixed upper-snake-case token
\* (the upper snake case of the variant name; SELF for RequestType::TheSelf),
\* the tokens of one enumeration are pairwise distinct, and a SkillKind and
\* the BuffKind of the same name have the same token.
C7_EnumWireTokens ==
    /\ \A v \in Variants(BuffKind) :
          Serialize_BuffKind(v) = JString(UpperSnake(v))
    /\ \A v \in Variants(SkillKind) :
          Serialize_SkillKind(v) = JString(UpperSnake(v))
    /\ \A v \in Variants(MoveDirection) :
          Serialize_MoveDirection(v) = JString(UpperSnake(v))
    /\ \A v \in Variants(TurnDirection) :
          Serialize_TurnDirection(v) = JString(UpperSnake(v))
    /\ Serialize_RequestType(TheSelf) = JString(<<"S", "E", "L", "F">>)
    /\ Serialize_RequestType(Opponent) = JString(UpperSnake(Opponent))
    /\ Serialize_BuffKind(BlackOut)
          = JString(<<"B", "L", "A", "C", "K", "_", "O", "U", "T">>)
    /\ Serialize_MoveDirection(Forth) = JString(<<"F", "O", "R", "T", "H">>)
    /\ Injective([v \in Variants(BuffKind) |-> Serialize_BuffKind(v)])
    /\ Injective([v \in Variants(SkillKind) |-> Serialize_SkillKind(v)])
    /\ Injective([v \in Variants(MoveDirection) |-> Serialize_MoveDirection(v)])
    /\ Injective([v \in Variants(TurnDirection) |-> Serialize_TurnDirection(v)])
    /\ Injective([v \in Variants(RequestType) |-> Serialize_RequestType(v)])
    /\ \A s \in Variants(SkillKind) :
          s \in Variants(BuffKind) /\ Serialize_SkillKind(s) = Serialize_BuffKind(s)
    /\ frame.some =>
          LET f == frame.value
              m == value.value
              expected(e) == IF e = TheSelf THEN <<"S", "E", "L", "F">>
                             ELSE UpperSnake(e)
          IN  /\ m.variant \in {"PerformMove", "PerformTurn"} =>
                    f.direction = JString(expected(m.direction))
              /\ m.variant = "PerformSkill" =>
                    f.skillName = JString(expected(m.skill_name))
              /\ m.variant = "PerformSelect" =>
                    f.buffName = JString(expected(m.buff_name))
              /\ m.variant = "GetPlayerInfo" =>
                    f.request = JString(expected(m.request))
              /\ \A k \in DOMAIN f \ {"messageType", "token", "distance", "angle"} :
                    IsUpperSnake(f[k].v)

C7_Witness ==
    /\ frame.some
    /\ value.value.variant = "PerformSelect"
    /\ value.value.buff_name = BlackOut
    /\ frame.value.buffName
          = JString(<<"B", "L", "A", "C", "K", "_", "O", "U", "T">>)

\* C8: every command value read back from its frame is the value that was
\* written: decode(encode(x)) is defined and equals x.
C8_RoundTrip ==
    decoded.some => decoded.value = Some(value.value)

\* ------------------------------------------------------------------------
\* Properties of the inbound dispatch
\* ------------------------------------------------------------------------

\* C9: dispatching a frame replaces exactly the Agent State component of its
\* kind by the frame's value, whole, and leaves the other three as they were
\* (here: as they were constructed).
C9_InboundReplacesComponent ==
    received.some =>
        LET m == received.value
            after(kind) == IF m.messageType = kind THEN Some(m.value) ELSE None
        IN  m.messageType \in {"GET_PLAYER_INFO", "GET_GAME_STATISTICS",
                               "GET_ENVIRONMENT_INFO", "GET_AVAILABLE_BUFFS"} =>
                /\ players_info = after("GET_PLAYER_INFO")
                /\ game_statistics = after("GET_GAME_STATISTICS")
                /\ environment_info = after("GET_ENVIRONMENT_INFO")
                /\ available_buffs = after("GET_AVAILABLE_BUFFS")

\* C10: a frame with an unknown discriminant leaves Agent State unchanged and
\* does not end the receive loop: the agent is still running after it.
C10_MalformedFrameSurvived ==
    (received.some /\ received.value.messageType = "NO_SUCH_TYPE") =>
        /\ pc = "connected"
        /\ players_info = None /\ game_statistics = None
        /\ environment_info = None /\ available_buffs = None

\* ------------------------------------------------------------------------
\* Properties of the agent state
\* ------------------------------------------------------------------------

ReceivedKind(kind) == received.some /\ received.value.messageType = kind

C12_OutboundNeverWritesState ==
    [][(out' # out \/ calls' # calls \/ last' # last) =>
          UNCHANGED state_vars]_vars

\* a failed and a successful operation have been made
C12_Witness ==
    /\ calls = 2
    /\ Len(out) = 2 /\ ~out[1].ok /\ out[2].ok
    /\ last.op \in PlayerOperateOps
    /\ PlayerOperate_token = "abc"
    /\ players_info = None /\ game_statistics = None
    /\ environment_info = None /\ available_buffs = None

\* ------------------------------------------------------------------------
\* Properties of the outbound operations
\* ------------------------------------------------------------------------

\* the frames the last call handed to the transport
LastSent == SubSeq(out, Len(out) - last.sends + 1, Len(out))

\* C13: every call of send_get_player_info attempts to transmit both the
\* SELF and the OPPONENT request, whatever the outcome of the other one.
C13_BothVariantsAttempted ==
    last.op = "send_get_player_info" =>
        /\ last.sends = 2
        /\ {LastSent[i].msg.request : i \in DOMAIN LastSent}
              = {TheSelf, Opponent}

\* C15: an outbound operation completes once its frame has been handed to
\* the transport: with nothing received and nothing waiting on the inbound
\* stream every operation can be made, and the ones that were made have
\* returned.
C15_FireAndForget ==
    /\ (pc = "connected" /\ ~received.some /\ calls < MaxCalls) =>
          /\ ENABLED call_send_get_available_buffs
          /\ ENABLED call_send_get_environment_info
          /\ ENABLED call_send_get_game_statistics
          /\ ENABLED call_send_get_player_info
          /\ ENABLED move_forward
          /\ ENABLED move_backward
          /\ ENABLED turn_clockwise
          /\ ENABLED turn_counter_clockwise
          /\ ENABLED attack
          /\ ENABLED use_skill
          /\ ENABLED select_buff
    /\ calls > 0 =>
          /\ last.ret \in {"Ok", "Err", "unit"}
          /\ last.sends >= 1
          /\ inbox = <<>>

\* a request and an action have returned and the server has said nothing
C15_Witness ==
    /\ calls = 2
    /\ ~received.some
    /\ inbox = <<>>
    /\ out[1].msg.variant = "GetGameStatistics" /\ out[1].ok
    /\ last.op = "attack" /\ last.ret = "unit"

\* C18: send_get_player_info sends the OPPONENT request first; when that
\* send fails the call returns the error and the SELF request is not handed
\* to the transport; the SELF request goes out only after the OPPONENT send
\* succeeded.
C18_OpponentFirstThenSelf ==
    last.op = "send_get_player_info" =>
        /\ last.sends \in {1, 2}
        /\ LastSent[1].msg = GetPlayerInfo(token, Opponent)
        /\ ~LastSent[1].ok => last.sends = 1 /\ last.ret = "Err"
        /\ LastSent[1].ok => last.sends = 2
        /\ last.sends = 2 =>
              /\ LastSent[1].ok
              /\ LastSent[2].msg = GetPlayerInfo(token, TheSelf)
              /\ last.ret = IF LastSent[2].ok THEN "Ok" ELSE "Err"

\* the OPPONENT send failed: one frame, the error returned
C18_Witness ==
    /\ last.op = "send_get_player_info"
    /\ last.sends = 1
    /\ ~out[Len(out)].ok
    /\ out[Len(out)].msg.request = Opponent
    /\ last.ret = "Err"

\* the JSON value that carries the f64 d, the u32 a
CarriesF64(j, d) == j.t = "number" /\ d.class = "finite" /\ j.v = d.tenths
CarriesU32(j, a) == j.t = "number" /\ j.v = 10 * a

\* C19: a strategy-facing action hands at most one frame to the transport,
\* of its kind and with the parameters of the call (move_forward(d):
\* PERFORM_MOVE, FORTH, distance d; move_backward(d): BACK;
\* turn_clockwise(a): PERFORM_TURN, CLOCKWISE, angle a;
\* turn_counter_clockwise(a): COUNTER_CLOCKWISE; attack: PERFORM_ATTACK;
\* use_skill(s): PERFORM_SKILL, skillName s; select_buff(b): PERFORM_SELECT,
\* buffName b), and the frame of the latest call is the latest frame.
C19_FrameOfEachAction ==
    last.op \in PlayerOperateOps =>
        LET f == out[Len(out)].frame
            kind(k) == f.messageType = JString(k)
        IN  /\ last.sends <= 1
            /\ Len(out) >= 1
            /\ last.op = "move_forward" =>
                  /\ kind("PERFORM_MOVE")
                  /\ f.direction = JString(<<"F", "O", "R", "T", "H">>)
                  /\ CarriesF64(f.distance, last.arg.x)
            /\ last.op = "move_backward" =>
                  /\ kind("PERFORM_MOVE")
                  /\ f.direction = JString(<<"B", "A", "C", "K">>)
                  /\ CarriesF64(f.distance, last.arg.x)
            /\ last.op = "turn_clockwise" =>
                  /\ kind("PERFORM_TURN")
                  /\ f.direction = JString(UpperSnake(Clockwise))
                  /\ CarriesU32(f.angle, last.arg.x)
            /\ last.op = "turn_counter_clockwise" =>
                  /\ kind("PERFORM_TURN")
                  /\ f.direction = JString(UpperSnake(CounterClockwise))
                  /\ CarriesU32(f.angle, last.arg.x)
            /\ last.op = "attack" =>
                  kind("PERFORM_ATTACK") /\ DOMAIN f = {"messageType", "token"}
            /\ last.op = "use_skill" =>
                  kind("PERFORM_SKILL")
                  /\ f.skillName = JString(UpperSnake(last.arg.x))
            /\ last.op = "select_buff" =>
                  kind("PERFORM_SELECT")
                  /\ f.buffName = JString(UpperSnake(last.arg.x))

\* ------------------------------------------------------------------------
\* Properties of run_agent
\* ------------------------------------------------------------------------

\* C14: the consumption of inbound frames runs as long as the session: it
\* ends only when the peer has closed the connection, and no frame the
\* server delivered is left undispatched.
C14_ConsumesUntilPeerCloses ==
    pc = "exited" => peer_closed /\ inbox = <<>>

\* ------------------------------------------------------------------------
\* Properties of the equalities
\* ------------------------------------------------------------------------

Compared(kind) ==
    pc = "eq" /\ eq_result.some /\ eq_args.value.kind = kind

\* the buffs that have no skill
BuffsWithoutSkill ==
    {BulletCount, BulletSpeed, AttackSpeed, Laser, Damage, AntiArmor, Armor,
     Reflect, Dodge, Knife, Gravity}

\* C16: b == s for a BuffKind b and a SkillKind s is true iff b and s have
\* the same variant name; each of the eight skills equals the buff of its
\* name, and BulletCount .. Gravity are unequal to every skill.
C16_BuffEqualsSkillOfSameName ==
    /\ Compared("BuffKind_SkillKind") =>
          eq_result.value = (eq_args.value.self = eq_args.value.other)
    /\ Len(SkillKind) = 8
    /\ \A s \in Variants(SkillKind) :
          s \in Variants(BuffKind) /\ BuffKind_eq_SkillKind(s, s)
    /\ \A b \in BuffsWithoutSkill, s \in Variants(SkillKind) :
          b \in Variants(BuffKind) /\ ~BuffKind_eq_SkillKind(b, s)

\* Kamui the buff against Kamui the skill gave true
C16_Witness ==
    /\ Compared("BuffKind_SkillKind")
    /\ eq_args.value.self = Kamui /\ eq_args.value.other = Kamui
    /\ eq_result.value = TRUE

\* C17: integer positions are equal iff x and y are equal exactly; floating
\* positions are equal iff |dx| < 1e-6 and |dy| < 1e-6, the bound strict;
\* the angles have no part in either.
C17_PositionEqualityIgnoresAngle ==
    /\ Compared("Position_i32") =>
          LET p == eq_args.value.self
              q == eq_args.value.other
          IN  /\ eq_result.value = (p.x = q.x /\ p.y = q.y)
              /\ \A a, b \in PositionAngles :
                    Position_i32_eq(Position(p.x, p.y, a), Position(q.x, q.y, b))
                        = eq_result.value
    /\ Compared("Position_f64") =>
          LET p == eq_args.value.self
              q == eq_args.value.other
              dx == p.x - q.x
              dy == p.y - q.y
          IN  /\ eq_result.value =
                    (-10 < dx /\ dx < 10 /\ -10 < dy /\ dy < 10)
              /\ \A a, b \in PositionAngles :
                    Position_f64_eq(Position(p.x, p.y, a), Position(q.x, q.y, b))
                        = eq_result.value

\* two floating positions exactly 1e-6 apart in x, with different angles,
\* compared unequal
C17_Witness ==
    /\ Compared("Position_f64")
    /\ eq_args.value.self.x - eq_args.value.other.x = 10
    /\ eq_args.value.self.y = eq_args.value.other.y
    /\ eq_args.value.self.angle # eq_args.value.other.angle
    /\ eq_result.value = FALSE

=============================================================================
